---- MODULE Spec2Model ----
(***************************************************************************)
(* Model of search_and_book.py: a command-line script that builds a flight *)
(* search payload, issues one GET to the search API, books the first       *)
(* flight with one POST to the booking API and prints the outcome.         *)
(*                                                                         *)
(* Python values are modelled as follows: a dict is a function whose       *)
(* DOMAIN is the dict's key set, a list is a sequence, None is the record  *)
(* None below, a date string is a sequence of one-character strings, and   *)
(* a printed line is the sequence of the arguments given to print(), a     *)
(* str.format call being its template followed by its argument.            *)
(***************************************************************************)
EXTENDS Integers, Sequences, FiniteSets, TLC

\* Longest flight list ('data') a search response carries in the model.
MaxFlights == 2

None == [type |-> "NoneType"]

----------------------------------------------------------------------------
(* Dates: datetime.strptime(s, '%Y-%m-%d') and strftime(d, '%d/%m/%Y')      *)

\* A character is a one-character string; a character outside ASCII is
\* written by its code point, "U+0663".
DigitChars == <<"0", "1", "2", "3", "4", "5", "6", "7", "8", "9">>

IsAsciiDigit(c) == \E i \in 1..10 : DigitChars[i] = c

\* decimal digits outside ASCII the model runs with: ARABIC-INDIC DIGIT ONE
\* and THREE, FULLWIDTH DIGIT THREE
NonAsciiDigits == {"U+0661", "U+0663", "U+FF13"}

\* the regex class \d of a str pattern: every Unicode decimal digit
IsDigit(c) == IsAsciiDigit(c) \/ c \in NonAsciiDigits

\* the value int() gives a decimal digit
DigitVal(c) ==
    IF IsAsciiDigit(c) THEN (CHOOSE i \in 1..10 : DigitChars[i] = c) - 1
    ELSE IF c = "U+0661" THEN 1
    ELSE 3

\* c is one of the ASCII digits lo..hi: the regex class [lo-hi]
InRange(c, lo, hi) == IsAsciiDigit(c) /\ DigitVal(c) >= lo /\ DigitVal(c) <= hi

RECURSIVE NatOfChars(_)
\* int() of a string of decimal digits, after a leading space if any
NatOfChars(cs) ==
    IF cs = <<>> THEN 0
    ELSE IF cs[1] = " " THEN NatOfChars(Tail(cs))
    ELSE 10 * NatOfChars(SubSeq(cs, 1, Len(cs) - 1)) + DigitVal(cs[Len(cs)])

RECURSIVE CharsOfNat(_)
\* decimal rendering without padding
CharsOfNat(n) ==
    IF n < 10 THEN <<DigitChars[n + 1]>>
    ELSE CharsOfNat(n \div 10) \o <<DigitChars[(n % 10) + 1]>>

\* %d and %m: zero-padded to two digits
Pad2(n) == IF n < 10 THEN <<"0">> \o CharsOfNat(n) ELSE CharsOfNat(n)

RECURSIVE SplitOn(_, _)
\* the fields of cs between occurrences of sep
SplitOn(cs, sep) ==
    IF \A i \in 1..Len(cs) : cs[i] # sep THEN <<cs>>
    ELSE LET i == CHOOSE j \in 1..Len(cs) :
                      cs[j] = sep /\ \A k \in 1..(j - 1) : cs[k] # sep
         IN  <<SubSeq(cs, 1, i - 1)>> \o SplitOn(SubSeq(cs, i + 1, Len(cs)), sep)

\* %Y: \d\d\d\d
MatchesYear(f) == Len(f) = 4 /\ \A i \in 1..4 : IsDigit(f[i])

\* %m: 1[0-2]|0[1-9]|[1-9]
MatchesMonth(f) ==
    \/ Len(f) = 2 /\ f[1] = "1" /\ InRange(f[2], 0, 2)
    \/ Len(f) = 2 /\ f[1] = "0" /\ InRange(f[2], 1, 9)
    \/ Len(f) = 1 /\ InRange(f[1], 1, 9)

\* %d: 3[0-1]|[1-2]\d|0[1-9]|[1-9]| [1-9]
MatchesDay(f) ==
    \/ Len(f) = 2 /\ f[1] = "3" /\ InRange(f[2], 0, 1)
    \/ Len(f) = 2 /\ InRange(f[1], 1, 2) /\ IsDigit(f[2])
    \/ Len(f) = 2 /\ f[1] = "0" /\ InRange(f[2], 1, 9)
    \/ Len(f) = 1 /\ InRange(f[1], 1, 9)
    \/ Len(f) = 2 /\ f[1] = " " /\ InRange(f[2], 1, 9)

IsLeap(y) == (y % 4 = 0 /\ y % 100 # 0) \/ y % 400 = 0

DaysInMonth(y, m) ==
    IF m = 2 THEN (IF IsLeap(y) THEN 29 ELSE 28)
    ELSE IF m \in {4, 6, 9, 11} THEN 30 ELSE 31

\* datetime.datetime.strptime(date, '%Y-%m-%d'): the whole string must match
\* (?P<Y>\d\d\d\d)-(?P<m>1[0-2]|0[1-9]|[1-9])-(?P<d>3[0-1]|[1-2]\d|0[1-9]|[1-9]| [1-9])
\* and the fields, read by int(), must name a day of the calendar (year >= 1).
\* Anything else raises ValueError.
strptime(date) ==
    LET parts == SplitOn(date, "-")
        wellFormed ==
            /\ Len(parts) = 3
            /\ MatchesYear(parts[1])
            /\ MatchesMonth(parts[2])
            /\ MatchesDay(parts[3])
        y == NatOfChars(parts[1])
        m == NatOfChars(parts[2])
        d == NatOfChars(parts[3])
    IN  IF wellFormed /\ y >= 1 /\ d <= DaysInMonth(y, m)
        THEN [ok |-> TRUE, year |-> y, month |-> m, day |-> d]
        ELSE [ok |-> FALSE, year |-> 0, month |-> 0, day |-> 0]

\* datetime.datetime.strftime(date, '%d/%m/%Y') as the C library renders it:
\* %d and %m are zero-padded, %Y is the year's decimal digits (glibc does not
\* pad a year below 1000).
strftime(dt) ==
    Pad2(dt.day) \o <<"/">> \o Pad2(dt.month) \o <<"/">> \o CharsOfNat(dt.year)

\* convert_date(date, format, type) for the two uses prepare_payload makes:
\* type 'object' parses with '%Y-%m-%d', type 'string' formats with '%d/%m/%Y',
\* any other type prints 'Unsupported convertsion' and returns None.
convert_date(date, type) ==
    IF type = "object" THEN strptime(date)
    ELSE IF type = "string" THEN strftime(date)
    ELSE None

----------------------------------------------------------------------------
(* Command line                                                            *)

\* --date values the model runs with
DateInputs ==
    { <<"2", "0", "2", "1", "-", "0", "7", "-", "0", "4">>,
      <<"2", "0", "2", "1", "-", "0", "9", "-", "0", "1">>,
      <<"2", "0", "2", "4", "-", "0", "2", "-", "2", "9">>,
      <<"2", "0", "2", "1", "-", "1", "2", "-", "3", "1">>,
      <<"0", "9", "9", "9", "-", "0", "1", "-", "0", "1">>,
      <<"2", "0", "2", "1", "-", "0", "2", "-", "2", "9">>,
      <<"2", "0", "2", "1", "-", "1", "3", "-", "0", "1">>,
      <<"2", "0", "2", "1", "-", "7", "-", "4">>,
      <<"0", "4", "/", "0", "7", "/", "2", "0", "2", "1">>,
      <<"2", "0", "0", "U+0663", "-", "0", "1", "-", "0", "1">>,
      <<"2", "0", "2", "1", "-", "0", "1", "-", "1", "U+FF13">>,
      <<"2", "0", "2", "1", "-", "0", "U+0661", "-", "0", "1">>,
      <<"2", "0", "2", "1", "-", "0", "7", "-", " ", "4">> }

NightsInputs == {"2", "7"}

BagsInputs == {"1"}

\* A command line: which of the optional flags were typed.
\*   trip  : "none" | "--one-way" | "--return"      (nights: the --return value)
\*   sort  : "none" | "--cheapest" | "--fastest"
\*   bags  : "none" or the --bags value
CommandLines ==
    { [date |-> d, from |-> "PRG", to |-> "LON", trip |-> t.trip, nights |-> t.nights,
       sort |-> s, bags |-> b] :
        d \in DateInputs,
        t \in {[trip |-> "none", nights |-> "none"], [trip |-> "--one-way", nights |-> "none"]}
              \cup {[trip |-> "--return", nights |-> n] : n \in NightsInputs},
        s \in {"none", "--cheapest", "--fastest"},
        b \in {"none"} \cup BagsInputs }

Str(v) == [type |-> "str", val |-> v]

\* docopt(__doc__) with docopt 0.6.2 on the module docstring: an option that
\* takes no argument is True when typed and False otherwise (a [default: ...]
\* is read only for options that take an argument); the descriptions of
\* --return and --bags stand after a blank line, outside the parsed Options
\* section, so their value is None when they are not typed.  A string that
\* may be None instead is modelled as Str(v).
docopt(argv) ==
    [k \in {"--date", "--from", "--to", "--one-way", "--return", "--cheapest",
            "--fastest", "--bags", "--help"} |->
        CASE k = "--date"     -> argv.date
          [] k = "--from"     -> argv.from
          [] k = "--to"       -> argv.to
          [] k = "--one-way"  -> (argv.trip = "--one-way")
          [] k = "--return"   -> (IF argv.trip = "--return" THEN Str(argv.nights) ELSE None)
          [] k = "--cheapest" -> (argv.sort = "--cheapest")
          [] k = "--fastest"  -> (argv.sort = "--fastest")
          [] k = "--bags"     -> (IF argv.bags = "none" THEN None ELSE Str(argv.bags))
          [] k = "--help"     -> FALSE]

----------------------------------------------------------------------------
(* Payload builder                                                         *)

\* line 73: the strptime call raises ValueError on a malformed date
prepare_payload_raises(search_options) ==
    ~convert_date(search_options["--date"], "object").ok

\* a variant that reads the --one-way flag instead of the --return value
typeFlight_from_flag(search_options) ==
    IF search_options["--one-way"] = TRUE THEN "oneway" ELSE "round"

typeFlight(search_options) ==
    IF search_options["--return"] # None THEN "round" ELSE "oneway"

sortKey(search_options) ==
    IF search_options["--cheapest"] = TRUE THEN "price" ELSE "duration"

\* a variant that leaves the upper end of the stay open
stay_keys_open_range(search_options) ==
    [daysInDestinationFrom |-> search_options["--return"],
     daysInDestinationTo   |-> None]

\* lines 89-90
stay_keys(search_options) ==
    [daysInDestinationFrom |-> search_options["--return"],
     daysInDestinationTo   |-> search_options["--return"]]

prepare_payload(search_options) ==
    LET dateFrom == convert_date(search_options["--date"], "object")
        payload ==
            [v          |-> 3,
             dateFrom   |-> convert_date(dateFrom, "string"),
             dateTo     |-> convert_date(dateFrom, "string"),
             flyFrom    |-> search_options["--from"],
             to         |-> search_options["--to"],
             typeFlight |-> typeFlight(search_options),
             adults     |-> 1,
             limit      |-> 1,
             sort       |-> sortKey(search_options)]
    IN  IF typeFlight(search_options) = "round"
        THEN payload @@ stay_keys(search_options)
        ELSE payload

----------------------------------------------------------------------------
(* The two remote services                                                 *)

passengers ==
    << [title |-> "Mr", firstName |-> "John", lastName |-> "Doe",
        documentID |-> "111", email |-> "test@test.com", birthday |-> "1980-01-01"] >>

Currencies == {"EUR", "USD"}

\* flight objects a search response may list: two complete ones, one without
\* its booking_token and one without its price
FlightObjects ==
    { [price |-> 100, cityFrom |-> "Prague", cityTo |-> "London", booking_token |-> "tokA"],
      [price |-> 250, cityFrom |-> "Berlin", cityTo |-> "Rome", booking_token |-> "tokB"],
      [price |-> 100, cityFrom |-> "Prague", cityTo |-> "London"],
      [cityFrom |-> "Prague", cityTo |-> "London", booking_token |-> "tokC"] }

FlightLists == UNION { [1..n -> FlightObjects] : n \in 0..MaxFlights }

\* JSON documents the search API may answer with: null, the documented shape,
\* and the documented shape with 'currency' or 'data' missing
SearchDocuments ==
    {None}
      \cup { [currency |-> c, data |-> fl] : c \in Currencies, fl \in FlightLists }
      \cup { [data |-> fl] : fl \in {f \in FlightLists : Len(f) <= 1} }
      \cup { [currency |-> c] : c \in Currencies }

\* a response is a transport failure, or a status code with a body that is
\* either a JSON document or not JSON at all
Response(code, isJson, doc) ==
    [failed |-> FALSE, status_code |-> code, json |-> isJson, document |-> doc]

ConnectionError == [failed |-> TRUE, status_code |-> 0, json |-> FALSE, document |-> None]

SearchResponses ==
    {ConnectionError}
      \cup { Response(code, FALSE, None) : code \in {200, 404, 500} }
      \cup { Response(200, TRUE, doc) : doc \in SearchDocuments }

BookingDocuments ==
    { None,
      [status |-> "confirmed", pnr |-> "ABC123"],
      [status |-> "confirmed"],
      [status |-> "pending"],
      [status |-> "failed", pnr |-> "XYZ789"],
      [pnr |-> "ABC123"] }

BookingResponses ==
    {ConnectionError, Response(200, FALSE, None)}
      \cup { Response(200, TRUE, doc) : doc \in BookingDocuments }

----------------------------------------------------------------------------
(* The functions of the script.  Each yields a record: 'raised' names the   *)
(* uncaught exception ("none" when the function returns), 'printed' the     *)
(* lines it printed, 'ret' its return value.                                *)

\* json.loads(response.text)
json_loads_raises(response) == ~response.json

\* a variant without the early return of line 60: the body is parsed anyway
get_flights_no_return(response) ==
    IF response.failed
    THEN [raised |-> "ConnectionError", printed |-> <<>>, ret |-> None]
    ELSE LET printed == IF response.status_code # 200
                        THEN << <<"Error while connecting to API. Response code: {}",
                                  response.status_code>> >>
                        ELSE <<>>
         IN  IF json_loads_raises(response)
             THEN [raised |-> "JSONDecodeError", printed |-> printed, ret |-> None]
             ELSE [raised |-> "none", printed |-> printed, ret |-> response.document]

\* get_flights, from the response requests.get returned (lines 56-62)
get_flights(response) ==
    IF response.failed
    THEN [raised |-> "ConnectionError", printed |-> <<>>, ret |-> None]
    ELSE IF response.status_code # 200
    THEN [raised  |-> "none",
          printed |-> << <<"Error while connecting to API. Response code: {}",
                           response.status_code>> >>,
          ret     |-> None]
    ELSE IF json_loads_raises(response)
    THEN [raised |-> "JSONDecodeError", printed |-> <<>>, ret |-> None]
    ELSE [raised |-> "none", printed |-> <<>>, ret |-> response.document]

\* a variant that takes the last flight of the list
flight_data_last(flight_details) ==
    flight_details["data"][Len(flight_details["data"])]

\* the flight book_flight takes from the search result (line 122)
flight_data(flight_details) == flight_details["data"][1]

\* a variant that guards the absent and the empty result and books anyway
book_flight_guarded(search_options, flight_details, passengerList) ==
    IF flight_details = None
    THEN [raised |-> "none",
          ret    |-> [passengers |-> passengerList, bags |-> search_options["--bags"]]]
    ELSE IF "data" \notin DOMAIN flight_details
    THEN [raised |-> "KeyError", ret |-> None]
    ELSE IF Len(flight_details["data"]) = 0
    THEN [raised |-> "none",
          ret    |-> [passengers |-> passengerList, bags |-> search_options["--bags"]]]
    ELSE IF "currency" \notin DOMAIN flight_details
    THEN [raised |-> "KeyError", ret |-> None]
    ELSE IF "booking_token" \notin DOMAIN flight_data(flight_details)
    THEN [raised |-> "KeyError", ret |-> None]
    ELSE [raised |-> "none",
          ret    |-> [currency      |-> flight_details["currency"],
                      passengers    |-> passengerList,
                      bags          |-> search_options["--bags"],
                      booking_token |-> flight_data(flight_details)["booking_token"]]]

\* book_flight up to its POST (lines 122-129): the lookups in the order Python
\* evaluates them, and the request body when none of them fails
book_flight(search_options, flight_details, passengerList) ==
    IF flight_details = None
    THEN [raised |-> "TypeError", ret |-> None]
    ELSE IF "data" \notin DOMAIN flight_details
    THEN [raised |-> "KeyError", ret |-> None]
    ELSE IF Len(flight_details["data"]) = 0
    THEN [raised |-> "IndexError", ret |-> None]
    ELSE IF "currency" \notin DOMAIN flight_details
    THEN [raised |-> "KeyError", ret |-> None]
    ELSE IF "booking_token" \notin DOMAIN flight_data(flight_details)
    THEN [raised |-> "KeyError", ret |-> None]
    ELSE [raised |-> "none",
          ret    |-> [currency      |-> flight_details["currency"],
                      passengers    |-> passengerList,
                      bags          |-> search_options["--bags"],
                      booking_token |-> flight_data(flight_details)["booking_token"]]]

\* book_flight after its POST (lines 131-132): the parsed booking response
book_flight_response(response) ==
    IF response.failed
    THEN [raised |-> "ConnectionError", ret |-> None]
    ELSE IF json_loads_raises(response)
    THEN [raised |-> "JSONDecodeError", ret |-> None]
    ELSE [raised |-> "none", ret |-> response.document]

\* a variant that takes a booking reference for a confirmation
is_confirmed_by_pnr(booking) == "pnr" \in DOMAIN booking

\* line 145
is_confirmed(booking) == booking["status"] = "confirmed"

\* a variant that prints the origin city on the arrival line too
success_lines_same_city(flight_details) ==
    LET currency == flight_details["currency"]
        first    == flight_details["data"][1]
    IN  << <<currency>>,
           <<"Flight succesfully booked">>,
           <<"Price:", first["price"], currency>>,
           <<"Departure:", first["cityFrom"]>>,
           <<"Arrival:", first["cityFrom"]>> >>

\* lines 151-155, printed before booking['pnr'] is looked up
success_lines(flight_details) ==
    LET currency == flight_details["currency"]
        first    == flight_details["data"][1]
    IN  << <<currency>>,
           <<"Flight succesfully booked">>,
           <<"Price:", first["price"], currency>>,
           <<"Departure:", first["cityFrom"]>>,
           <<"Arrival:", first["cityTo"]>> >>

\* line 156
booking_number_line(booking) == <<"Your booking number is {}", booking["pnr"]>>

\* line 158
failure_line == <<"Could not book the flight">>

\* the report of search_and_book (lines 145-158)
report(booking, flight_details) ==
    IF booking = None
    THEN [raised |-> "TypeError", printed |-> <<>>]
    ELSE IF "status" \notin DOMAIN booking
    THEN [raised |-> "KeyError", printed |-> <<>>]
    ELSE IF is_confirmed(booking)
    THEN IF flight_details = None
         THEN [raised |-> "TypeError", printed |-> <<>>]
         ELSE IF \/ "currency" \notin DOMAIN flight_details
                 \/ "data" \notin DOMAIN flight_details
         THEN [raised |-> "KeyError", printed |-> <<>>]
         ELSE IF Len(flight_details["data"]) = 0
         THEN [raised |-> "IndexError", printed |-> <<>>]
         ELSE IF \E k \in {"price", "cityFrom", "cityTo"} :
                    k \notin DOMAIN flight_details["data"][1]
         THEN [raised |-> "KeyError", printed |-> <<>>]
         ELSE IF "pnr" \notin DOMAIN booking
         THEN [raised |-> "KeyError", printed |-> success_lines(flight_details)]
         ELSE [raised  |-> "none",
               printed |-> Append(success_lines(flight_details),
                                  booking_number_line(booking))]
    ELSE [raised |-> "none", printed |-> <<failure_line>>]

----------------------------------------------------------------------------
(* The run of the script                                                   *)

VARIABLES
    argv,             \* the command line
    pc,               \* where the run stands
    search_options,   \* docopt's result
    payload,          \* prepare_payload's result
    flights,          \* the response requests.get returned to get_flights
    flight_details,   \* get_flights' result
    request,          \* the body book_flight posted
    booking,          \* book_flight's result
    out,              \* the lines printed so far
    events,           \* the requests sent and responses received, in order
    raised            \* the uncaught exception that ended the run, and where

vars == <<argv, pc, search_options, payload, flights, flight_details, request, booking,
          out, events, raised>>

NoException == [exc |-> "none", in |-> "none"]

Init ==
    /\ argv \in CommandLines
    /\ pc = "main"
    /\ search_options = None
    /\ payload = None
    /\ flights = None
    /\ flight_details = None
    /\ request = None
    /\ booking = None
    /\ out = <<>>
    /\ events = <<>>
    /\ raised = NoException

\* line 164
Main ==
    /\ pc = "main"
    /\ search_options' = docopt(argv)
    /\ pc' = "prepare_payload"
    /\ UNCHANGED <<argv, payload, flights, flight_details, request, booking, out, events, raised>>

\* line 141
PreparePayload ==
    /\ pc = "prepare_payload"
    /\ IF prepare_payload_raises(search_options)
       THEN /\ raised' = [exc |-> "ValueError", in |-> "prepare_payload"]
            /\ pc' = "crashed"
            /\ UNCHANGED payload
       ELSE /\ payload' = prepare_payload(search_options)
            /\ pc' = "get_flights"
            /\ UNCHANGED raised
    /\ UNCHANGED <<argv, search_options, flights, flight_details, request, booking, out, events>>

\* a variant that may send the GET a second time
SendSearch_retry ==
    /\ pc = "get_flights"
    /\ events' = Append(events, "GET")
    /\ pc' \in IF Len(events) = 0 THEN {"get_flights", "await_search"} ELSE {"await_search"}
    /\ UNCHANGED <<argv, search_options, payload, flights, flight_details, request, booking, out, raised>>

\* line 54: the GET leaves
SendSearch ==
    /\ pc = "get_flights"
    /\ events' = Append(events, "GET")
    /\ pc' = "await_search"
    /\ UNCHANGED <<argv, search_options, payload, flights, flight_details, request, booking, out, raised>>

\* lines 54-62 and 142: the GET's response arrives and get_flights finishes
SearchResponse ==
    /\ pc = "await_search"
    /\ \E response \in SearchResponses :
         LET r == get_flights(response)
         IN  /\ flights' = response
             /\ events' = Append(events, "GET response")
             /\ out' = out \o r.printed
             /\ IF r.raised # "none"
                THEN /\ raised' = [exc |-> r.raised, in |-> "get_flights"]
                     /\ pc' = "crashed"
                     /\ UNCHANGED flight_details
                ELSE /\ flight_details' = r.ret
                     /\ pc' = "book_flight"
                     /\ UNCHANGED raised
    /\ UNCHANGED <<argv, search_options, payload, request, booking>>

\* lines 143, 122-131: book_flight builds its request and the POST leaves
SendBooking ==
    /\ pc = "book_flight"
    /\ LET r == book_flight(search_options, flight_details, passengers)
       IN  IF r.raised # "none"
           THEN /\ raised' = [exc |-> r.raised, in |-> "book_flight"]
                /\ pc' = "crashed"
                /\ UNCHANGED <<request, events>>
           ELSE /\ request' = r.ret
                /\ events' = Append(events, "POST")
                /\ pc' = "await_booking"
                /\ UNCHANGED raised
    /\ UNCHANGED <<argv, search_options, payload, flights, flight_details, booking, out>>

\* lines 131-132: the POST's response arrives and book_flight returns
BookingResponse ==
    /\ pc = "await_booking"
    /\ \E response \in BookingResponses :
         LET r == book_flight_response(response)
         IN  /\ events' = Append(events, "POST response")
             /\ IF r.raised # "none"
                THEN /\ raised' = [exc |-> r.raised, in |-> "book_flight"]
                     /\ pc' = "crashed"
                     /\ UNCHANGED booking
                ELSE /\ booking' = r.ret
                     /\ pc' = "report"
                     /\ UNCHANGED raised
    /\ UNCHANGED <<argv, search_options, payload, flights, flight_details, request, out>>

\* lines 145-158
Report ==
    /\ pc = "report"
    /\ LET r == report(booking, flight_details)
       IN  /\ out' = out \o r.printed
           /\ IF r.raised # "none"
              THEN /\ raised' = [exc |-> r.raised, in |-> "search_and_book"]
                   /\ pc' = "crashed"
              ELSE /\ pc' = "done"
                   /\ UNCHANGED raised
    /\ UNCHANGED <<argv, search_options, payload, flights, flight_details, request, booking, events>>

Next ==
    \/ Main
    \/ PreparePayload
    \/ SendSearch
    \/ SearchResponse
    \/ SendBooking
    \/ BookingResponse
    \/ Report

Spec == Init /\ [][Next]_vars

----------------------------------------------------------------------------
(* Properties                                                              *)

\* d is a dict that has key k
HasKey(d, k) == d # None /\ k \in DOMAIN d

Count(e) == Cardinality({i \in 1..Len(events) : events[i] = e})

Printed(line) == \E i \in 1..Len(out) : out[i] = line

SuccessLabels ==
    {"Flight succesfully booked", "Price:", "Departure:", "Arrival:",
     "Your booking number is {}"}

SuccessLinePrinted == \E i \in 1..Len(out) : out[i][1] \in SuccessLabels

OutcomePrinted == SuccessLinePrinted \/ Printed(failure_line)

Ended == pc \in {"done", "crashed"}

\* the report has acted on a booking response whose status is "confirmed"
ConfirmedReported ==
    Ended /\ HasKey(booking, "status") /\ booking["status"] = "confirmed"

FirstFlightComplete ==
    {"price", "cityFrom", "cityTo"} \subseteq DOMAIN flight_details["data"][1]

\* currency, price and the two cities of the first flight are on the output
FlightLinesPrinted ==
    LET first == flight_details["data"][1]
        currency == flight_details["currency"]
    IN  /\ Printed(<<currency>>)
        /\ Printed(<<"Price:", first["price"], currency>>)
        /\ Printed(<<"Departure:", first["cityFrom"]>>)
        /\ Printed(<<"Arrival:", first["cityTo"]>>)

BookingNumberPrinted ==
    \E i \in 1..Len(out) :
        /\ out[i][1] = "Your booking number is {}"
        /\ "pnr" \in DOMAIN booking => out[i] = <<"Your booking number is {}", booking["pnr"]>>

\* C1 as stated: every booking response whose status is "confirmed", with or
\* without a pnr field, makes search_and_book print currency, price, origin
\* city, destination city and the booking reference of the booked flight.
C1_EveryConfirmedPrintsReference ==
    (ConfirmedReported /\ FirstFlightComplete)
        => (FlightLinesPrinted /\ BookingNumberPrinted)

\* C1 amended: a confirmed response makes search_and_book print currency,
\* price, origin city and destination city of the first flight; the booking
\* reference is printed, and the run ends normally, exactly when the response
\* carries a pnr field; without one the run ends in an uncaught KeyError after
\* the flight lines and prints no booking number.
C1_ConfirmedPrintsReferenceWhenPnr ==
    (ConfirmedReported /\ FirstFlightComplete)
        => /\ FlightLinesPrinted
           /\ IF "pnr" \in DOMAIN booking
              THEN /\ Printed(<<"Your booking number is {}", booking["pnr"]>>)
                   /\ pc = "done"
                   /\ raised = NoException
              ELSE /\ ~BookingNumberPrinted
                   /\ pc = "crashed"
                   /\ raised = [exc |-> "KeyError", in |-> "search_and_book"]

C1_Witness ==
    /\ pc = "done"
    /\ HasKey(booking, "status") /\ booking["status"] = "confirmed"
    /\ "pnr" \in DOMAIN booking
    /\ out = << <<"EUR">>, <<"Flight succesfully booked">>, <<"Price:", 100, "EUR">>,
                <<"Departure:", "Prague">>, <<"Arrival:", "London">>,
                <<"Your booking number is {}", "ABC123">> >>

\* the search API answered, and not with status 200
NonOkSearch == flights # None /\ ~flights.failed /\ flights.status_code # 200

\* C2: when the search API answers with a status code other than 200,
\* get_flights prints an error message containing that code, returns None and
\* raises no exception itself.
C2_NonOkSearchYieldsNone ==
    NonOkSearch
        => /\ Printed(<<"Error while connecting to API. Response code: {}",
                        flights.status_code>>)
           /\ flight_details = None
           /\ raised.in # "get_flights"
           /\ pc \in {"book_flight", "crashed"}

C2_Witness ==
    /\ NonOkSearch /\ flights.status_code = 500
    /\ pc = "book_flight"
    /\ out = << <<"Error while connecting to API. Response code: {}", 500>> >>

\* the report has acted on a booking response with a status other than "confirmed"
UnconfirmedReported ==
    Ended /\ HasKey(booking, "status") /\ booking["status"] # "confirmed"

\* C3: for a well-formed booking response whose status is not "confirmed",
\* search_and_book prints exactly 'Could not book the flight', none of the
\* success lines, and ends without an uncaught error.
C3_UnconfirmedPrintsFailure ==
    UnconfirmedReported
        => /\ out = <<failure_line>>
           /\ ~SuccessLinePrinted
           /\ pc = "done"
           /\ raised = NoException

C3_Witness ==
    /\ pc = "done"
    /\ HasKey(booking, "status") /\ booking["status"] = "pending"
    /\ out = << <<"Could not book the flight">> >>

\* C4: the booking request is built from the first element of the result's
\* flight list (booking_token), the result's currency, the --bags option and
\* the passenger list; no other element of data influences it; one POST is
\* issued per call of book_flight that gets past its lookups, never more.
C4_RequestFromFirstFlight ==
    /\ Count("POST") <= 1
    /\ (request # None) <=> (Count("POST") = 1)
    /\ pc \in {"await_booking", "report", "done"} => Count("POST") = 1
    /\ request # None
         => /\ DOMAIN request = {"currency", "passengers", "bags", "booking_token"}
            /\ "booking_token" \in DOMAIN flight_details["data"][1]
            /\ request["booking_token"] = flight_details["data"][1]["booking_token"]
            /\ request["currency"] = flight_details["currency"]
            /\ request["bags"] = (IF argv.bags = "none" THEN None ELSE Str(argv.bags))
            /\ request["passengers"] = passengers

C4_Witness ==
    /\ pc = "await_booking"
    /\ request # None
    /\ Len(flight_details["data"]) = 2
    /\ "booking_token" \in DOMAIN flight_details["data"][2]
    /\ flight_details["data"][2]["booking_token"] # request["booking_token"]
    /\ argv.bags = "1"

StayKeys == {"daysInDestinationFrom", "daysInDestinationTo"}

\* C5: for one-way search options (no --return value), prepare_payload sets
\* typeFlight = "oneway" and the payload has neither daysInDestinationFrom nor
\* daysInDestinationTo.
C5_OneWayPayload ==
    (payload # None /\ argv.trip # "--return")
        => /\ payload["typeFlight"] = "oneway"
           /\ DOMAIN payload \cap StayKeys = {}

C5_Witness ==
    /\ payload # None
    /\ argv.trip = "none"
    /\ payload["typeFlight"] = "oneway"

\* C6: for round-trip search options with --return = N, prepare_payload sets
\* typeFlight = "round" and both daysInDestinationFrom and daysInDestinationTo
\* to N.
C6_RoundTripPayload ==
    (payload # None /\ argv.trip = "--return")
        => /\ payload["typeFlight"] = "round"
           /\ StayKeys \subseteq DOMAIN payload
           /\ payload["daysInDestinationFrom"] = Str(argv.nights)
           /\ payload["daysInDestinationTo"] = Str(argv.nights)

C6_Witness ==
    /\ payload # None
    /\ argv.trip = "--return" /\ argv.nights = "7"
    /\ payload["daysInDestinationTo"] = Str("7")

\* C7: --cheapest, and also a command line with neither sort flag, yields
\* sort = "price"; --fastest yields sort = "duration".
C7_SortMapping ==
    payload # None
        => /\ argv.sort \in {"none", "--cheapest"} => payload["sort"] = "price"
           /\ argv.sort = "--fastest" => payload["sort"] = "duration"

\* a date string of the shape dddd-dd-dd
IsIsoDate(d) ==
    /\ Len(d) = 10
    /\ d[5] = "-" /\ d[8] = "-"
    /\ \A i \in {1, 2, 3, 4, 6, 7, 9, 10} : IsDigit(d[i])

\* the ASCII digit of a decimal digit's value
Ascii(c) == DigitChars[DigitVal(c) + 1]

\* the dd/mm/yyyy rendering of the day a dddd-dd-dd string names
DayMonthYear(d) ==
    <<Ascii(d[9]), Ascii(d[10]), "/", Ascii(d[6]), Ascii(d[7]), "/",
      Ascii(d[1]), Ascii(d[2]), Ascii(d[3]), Ascii(d[4])>>

\* C8: for every valid yyyy-mm-dd departure date, dateFrom and dateTo are the
\* same string, the dd/mm/yyyy rendering of that calendar day.
C8_DateRendering ==
    (payload # None /\ IsIsoDate(argv.date))
        => /\ payload["dateFrom"] = DayMonthYear(argv.date)
           /\ payload["dateTo"] = DayMonthYear(argv.date)

Pipeline == <<"GET", "GET response", "POST", "POST response">>

IsPrefix(a, b) == Len(a) <= Len(b) /\ a = SubSeq(b, 1, Len(a))

\* the order of the steps: payload, GET, its response, POST, its response,
\* outcome; at most one GET and one POST
StepsInOrder ==
    /\ IsPrefix(events, Pipeline)
    /\ events # <<>> => payload # None
    /\ OutcomePrinted => Count("POST response") = 1

\* C9 as stated: the steps occur in order, at most one POST is issued, no
\* outcome is printed before the booking response, and every run issues
\* exactly one search GET.
C9_EveryRunOneGet ==
    /\ StepsInOrder
    /\ Ended => Count("GET") = 1

\* C9 amended: the steps occur in order, at most one GET and at most one POST
\* are issued, the POST never before the GET's response, no outcome before the
\* booking response; a run issues exactly one GET unless prepare_payload raised
\* on a malformed --date, and then it issues none.
C9_OneGetUnlessDateMalformed ==
    /\ StepsInOrder
    /\ Ended => IF raised.in = "prepare_payload"
                THEN Count("GET") = 0 /\ ~strptime(argv.date).ok
                ELSE Count("GET") = 1 /\ strptime(argv.date).ok

C9_Witness ==
    /\ pc = "done"
    /\ events = Pipeline
    /\ OutcomePrinted

\* get_flights returned a result, absent or not
SearchReturned == flights # None /\ raised.in # "get_flights"

AbsentOrEmpty ==
    \/ flight_details = None
    \/ HasKey(flight_details, "data") /\ Len(flight_details["data"]) = 0

\* C10: after an absent search result or one with an empty flight list the
\* run ends with an uncaught error of the lookup flight_details['data'][0] in
\* book_flight, before any POST, with neither success lines nor the failure
\* message printed; and no booking request is issued without the first
\* flight's booking token.
C10_NoFlightNoBooking ==
    /\ (SearchReturned /\ AbsentOrEmpty)
         => /\ Count("POST") = 0
            /\ request = None
            /\ ~OutcomePrinted
            /\ pc \in {"book_flight", "crashed"}
            /\ pc = "crashed"
                 => raised = [exc |-> IF flight_details = None THEN "TypeError"
                                      ELSE "IndexError",
                              in  |-> "book_flight"]
    /\ Count("POST") > 0
         => /\ HasKey(flight_details, "data")
            /\ Len(flight_details["data"]) >= 1
            /\ "booking_token" \in DOMAIN flight_details["data"][1]
            /\ request["booking_token"] = flight_details["data"][1]["booking_token"]

C10_Witness ==
    /\ pc = "crashed"
    /\ raised = [exc |-> "IndexError", in |-> "book_flight"]
    /\ flights # None /\ flights.status_code = 200
    /\ HasKey(flight_details, "data") /\ flight_details["data"] = <<>>

====
